---------------------------- MODULE Spec2Model ----------------------------
(***************************************************************************)
(* Model of jdk/src/solaris/native/java/net/Inet4AddressImpl.c:            *)
(* the IPv4 resolver entry points (getLocalHostName, lookupAllHostAddr,    *)
(* getHostByAddr, each in its getaddrinfo and its gethostbyname_r build    *)
(* variant) and the reachability prober (isReachable0, ping4).             *)
(***************************************************************************)
EXTENDS Integers, Sequences, FiniteSets, TLC

(***************************************************************************)
(* Bounds of the model.                                                    *)
(***************************************************************************)
MaxRecords == 3     \* longest record stream the OS resolver returns
MaxHostLen == 2     \* longest name passed to lookupAllHostAddr
MaxNameLen == 3     \* longest name the OS reports for the local host / a reverse query
MaxTimeout == 2500  \* largest timeout (ms) passed to isReachable0
Tick       == 500   \* granularity (ms) of timeouts and of elapsed time

(***************************************************************************)
(* Build configurations.  The file compiles to one of two resolver         *)
(* variants (line 54), and __linux__ / __solaris__ gate further lines.     *)
(*   bsd     : _ALLBSD_SOURCE without HAS_GLIBC_GETHOSTBY_R (getaddrinfo)  *)
(*   linux   : __linux__, glibc (gethostbyname_r)                          *)
(*   solaris : __solaris__, SPARC (gethostbyname_r)                        *)
(*   freebsd : FreeBSD >= 601104, HAS_GLIBC_GETHOSTBY_R (gethostbyname_r)  *)
(***************************************************************************)
Builds == {"bsd", "linux", "solaris", "freebsd"}

UsesGetaddrinfo(b) == b = "bsd"

IsLinux(b) == b = "linux"

IsSolaris(b) == b = "solaris"

BigEndian(b) == b = "solaris"

(***************************************************************************)
(* C strings are sequences of characters; NUL is the terminator that is    *)
(* read when indexing one past the end.                                    *)
(***************************************************************************)
NUL == "NUL"

\* A nullable reference (jstring, jobjectArray, char *): NULL, or a value.
Null == [null |-> TRUE, val |-> <<>>]

Ref(v) == [null |-> FALSE, val |-> v]

Alphabet == {"h", "x", "."}

HostAlphabet == {"h", " "}

SeqsUpTo(S, n) == UNION {[1..k -> S] : k \in 0..n}

CharAt(s, i) == IF i < Len(s) THEN s[i + 1] ELSE NUL

Strlen(s) == Len(s)

\* strncmp(a, b, n) == 0
StrncmpEq(a, b, n) ==
    \A i \in 0..(n - 1) :
        \/ CharAt(a, i) = CharAt(b, i)
        \/ \E j \in 0..(i - 1) : CharAt(a, j) = NUL /\ CharAt(b, j) = NUL

\* isspace() in the C locale (vertical tab has no TLA+ escape)
Isspace(c) == c \in {" ", "\t", "\n", "\f", "\r"}

Localhost == <<"l", "o", "c", "a", "l", "h", "o", "s", "t">>

(***************************************************************************)
(* Addresses.  The Java side holds an address as a host-order integer; the *)
(* resolver and the sockets hold it in network byte order (s_addr).        *)
(***************************************************************************)
Byte(x, k) == (x \div (2 ^ (8 * k))) % 256

Swap32(x) ==
    Byte(x, 0) * (2 ^ 24) + Byte(x, 1) * (2 ^ 16) + Byte(x, 2) * (2 ^ 8) + Byte(x, 3)

Ntohl(b, x) == IF BigEndian(b) THEN x ELSE Swap32(x)

Htonl(b, x) == IF BigEndian(b) THEN x ELSE Swap32(x)

\* caddr[0..3] -> jint addr
AssembleAddr(caddr) ==
    caddr[1] * (2 ^ 24) + caddr[2] * (2 ^ 16) + caddr[3] * (2 ^ 8) + caddr[4]

\* 10.0.0.1, 10.0.0.2, 127.0.0.1 as byte arrays
ByteAddrs == {<<10, 0, 0, 1>>, <<10, 0, 0, 2>>, <<127, 0, 0, 1>>}

HostAddrs == {AssembleAddr(c) : c \in ByteAddrs}

NetAddrs(b) == {Htonl(b, a) : a \in HostAddrs}

HostNames == SeqsUpTo(HostAlphabet, MaxHostLen)

Names == SeqsUpTo(Alphabet, MaxNameLen)

CanonNames == {<<"h">>, <<"x", ".", "h">>}

(***************************************************************************)
(* Dotted-decimal text of an address (what getnameinfo produces when no    *)
(* name is required and none is known).                                    *)
(***************************************************************************)
Digit(d) == <<"0", "1", "2", "3", "4", "5", "6", "7", "8", "9">>[d + 1]

RECURSIVE Decimal(_)
Decimal(n) == IF n < 10 THEN <<Digit(n)>> ELSE Append(Decimal(n \div 10), Digit(n % 10))

InetNtoa(b, sAddr) ==
    LET a == Ntohl(b, sAddr)
    IN  Decimal(Byte(a, 3)) \o <<".">> \o Decimal(Byte(a, 2)) \o <<".">>
            \o Decimal(Byte(a, 1)) \o <<".">> \o Decimal(Byte(a, 0))

(***************************************************************************)
(* What the OS name service answers to one query.                          *)
(*   ok /\ hasName : the query succeeded and produced `name`               *)
(*                   (forward: the canonical name; reverse: the host name) *)
(*   ok /\ ~hasName: the query succeeded but no name is known              *)
(*   ~ok           : the query failed; errno says why                      *)
(* addrs is the record stream of a forward query, in network byte order.   *)
(***************************************************************************)
Answer(ok, errno, addrs, hasName, name) ==
    [ok |-> ok, errno |-> errno, addrs |-> addrs, hasName |-> hasName, name |-> name]

NoAnswer == Answer(FALSE, "NONE", <<>>, FALSE, <<>>)

Failures == {Answer(FALSE, e, <<>>, FALSE, <<>>) : e \in {"ERANGE", "HOST_NOT_FOUND"}}

Streams(b, min) == {s \in SeqsUpTo(NetAddrs(b), MaxRecords) : Len(s) >= min}

\* getaddrinfo returns at least one record when it succeeds; a hostent's
\* h_addr_list is any NULL-terminated array.
ForwardAnswers(b) ==
    Failures
    \cup {Answer(TRUE, "NONE", s, FALSE, <<>>) :
            s \in Streams(b, IF UsesGetaddrinfo(b) THEN 1 ELSE 0)}
    \cup {Answer(TRUE, "NONE", s, TRUE, c) :
            s \in Streams(b, IF UsesGetaddrinfo(b) THEN 1 ELSE 0), c \in CanonNames}

ReverseAnswers ==
    Failures
    \cup {Answer(TRUE, "NONE", <<>>, FALSE, <<>>)}
    \cup {Answer(TRUE, "NONE", <<>>, TRUE, n) : n \in Names}

(***************************************************************************)
(* State.                                                                  *)
(***************************************************************************)
VARIABLES
    build,      \* the build configuration of the library
    pc,         \* position of the running native call ("idle": none runs)
    op,         \* the native method that runs or has just returned
    arg,        \* its argument: the host string, or the address bytes
    ret,        \* the reference it returned (hostname, address array)
    thrown,     \* the exceptions it raised, in order
    queries,    \* number of name-service queries it issued
    ghn,        \* what JVM_GetHostName produced in this call
    fwd,        \* the answer to its last forward query
    rev,        \* the answer to its last reverse query
    jni,        \* the JNI allocation that failed in this call ("none": none)
    retried     \* the answer after which the query was made again (NoAnswer: none)

resolverVars == <<arg, ret, queries, ghn, fwd, rev, jni, retried>>

VARIABLES
    him,        \* isReachable0: the target address (s_addr)
    netif,      \* the source interface to bind to, or NULL
    ttl,        \* the time-to-live argument
    timeout,    \* the remaining timeout (ms)
    tmout2,     \* ping4: the wait budget left in the current slice
    seq,        \* ping4: the sequence number of the next echo request
    tried,      \* the socket() calls of this call, in order, with their success
    sock,       \* the descriptor fd: its state, how often it was closed, misuse
    sent,       \* the echo requests sent, in order
    pkt,        \* the last packet recvfrom() delivered
    reachable,  \* the jboolean isReachable0 returned
    timeoutMs,  \* the timeout argument of this call
    bound,      \* the result of bind(): "none" (not called), "ok", "failed"
    conn,       \* errno of JVM_Connect ("NONE": not called, "OK": connect_rv = 0)
    waited,     \* the time (ms) this call has spent inside NET_Wait
    waitKinds,  \* the kinds of budget NET_Wait was called with in this call
    soerr       \* the pending error read with SO_ERROR ("NONE": not read)

traceVars == <<timeoutMs, bound, conn, waited, waitKinds, soerr>>

proberVars ==
    <<him, netif, ttl, timeout, tmout2, seq, tried, sock, sent, pkt, reachable, traceVars>>

\* Two isReachable0 calls of one process that run ping4 at the same time.
VARIABLES
    calls,      \* per caller thread: the locals of its ping4 and its raw socket
    wire        \* the echo requests on their way to a target

concVars == <<calls, wire>>

vars == <<build, pc, op, thrown, resolverVars, proberVars, concVars>>

UHE == "java.net.UnknownHostException"

OOM == "java.lang.OutOfMemoryError"

NPE == "java.lang.NullPointerException"

\* The JNI allocation that fails in a call, if any.
JniFailures == {"none", "NewStringUTF", "NewObjectArray", "NewObject"}

\* What a call leaves behind.
Outcome(r, t, q, f, v) ==
    [ret |-> r, thrown |-> t, queries |-> q, ghn |-> Null, fwd |-> f, rev |-> v,
     jni |-> "none", retried |-> NoAnswer]

\* The outcome o of a call whose first query was answered a1 and, when
\* `retry`, was made again with the big buffer.
Retried(o, retry, a1) == IF retry THEN [o EXCEPT !.retried = a1] ELSE o

\* The outcome of a call in which JNI allocation `which` failed: the JVM
\* leaves an OutOfMemoryError pending and the allocation yields NULL.
JniFailed(which, t, q, f, v) == [Outcome(Null, t, q, f, v) EXCEPT !.jni = which]

(***************************************************************************)
(* lookupAllHostAddr, getaddrinfo variant (lines 118-259).                 *)
(***************************************************************************)
\* Lines 169-208: copy the records whose address is not yet in resNew.
\* mallocFail is the number of the malloc call that fails (0: none does).
RECURSIVE CopyDistinct(_, _, _)
CopyDistinct(res, resNew, mallocFail) ==
    IF res = <<>>
    THEN [resNew |-> resNew, oom |-> FALSE]
    ELSE LET skip == \E j \in 1..Len(resNew) : resNew[j] = Head(res)
         IN  IF skip
             THEN CopyDistinct(Tail(res), resNew, mallocFail)
             ELSE IF Len(resNew) + 1 = mallocFail
                  THEN [resNew |-> resNew, oom |-> TRUE]
                  ELSE CopyDistinct(Tail(res), Append(resNew, Head(res)), mallocFail)

\* Lines 235-236 / 492-493: one Inet4Address of the result.
Entry(b, sAddr, name) == [addr |-> Ntohl(b, sAddr), hostName |-> name]

\* Line 237: the array index that receives the i-th record of resNew.
GaiSlot(retLen, i) == retLen - i - 1

\* Line 494: the array index that receives the i-th record of h_addr_list.
HbnSlot(n, i) == i

\* Lines 225-240: the filled array, slots 0..retLen-1 as a sequence.
GaiArray(b, resNew, name) ==
    LET retLen == Len(resNew)
    IN  [k \in 1..retLen |->
            LET i == CHOOSE i \in 0..(retLen - 1) : GaiSlot(retLen, i) = k - 1
            IN  Entry(b, resNew[i + 1], name)]

GaiGuardNone(hostname) == FALSE

\* Lines 149-158: the whitespace guard.
GaiGuard(hostname) == Isspace(CharAt(hostname, 0))

GaiNameCanonical(hostname, r) == IF r.hasName THEN r.name ELSE hostname

\* Line 214: the host name every element of the result carries.
GaiName(hostname, r) == hostname

LookupAllHostAddrGai(b, hostname, r, mallocFail, jniFail) ==
    IF GaiGuard(hostname)
    THEN Outcome(Null, <<UHE>>, 0, NoAnswer, NoAnswer)
    ELSE IF ~r.ok
    THEN Outcome(Null, <<UHE>>, 1, r, NoAnswer)
    ELSE LET c == CopyDistinct(r.addrs, <<>>, mallocFail)
             name == GaiName(hostname, r)
         IN  IF c.oom
             THEN Outcome(Null, <<OOM>>, 1, r, NoAnswer)
             ELSE IF \/ jniFail \in {"NewStringUTF", "NewObjectArray"}
                     \/ jniFail = "NewObject" /\ c.resNew # <<>>
             THEN JniFailed(jniFail, <<OOM>>, 1, r, NoAnswer)
             ELSE Outcome(Ref(GaiArray(b, c.resNew, name)), <<>>, 1, r, NoAnswer)

(***************************************************************************)
(* lookupAllHostAddr, gethostbyname_r variant (lines 404-510).             *)
(***************************************************************************)
\* Lines 434-445: the whitespace guard, compiled on Solaris only.
HbnGuard(b, hostname) == IsSolaris(b) /\ Isspace(CharAt(hostname, 0))

HbnRetryAnyFailure(r1, mallocFail) == ~r1.ok /\ mallocFail # 1

\* Lines 459-469: whether the query is repeated with the big buffer.
HbnRetry(r1, mallocFail) == ~r1.ok /\ r1.errno = "ERANGE" /\ mallocFail # 1

\* Lines 484-497: the filled array.
HbnArray(b, addrList, host) ==
    LET n == Len(addrList)
    IN  [k \in 1..n |->
            LET i == CHOOSE i \in 0..(n - 1) : HbnSlot(n, i) = k - 1
            IN  Entry(b, addrList[i + 1], host)]

LookupAllHostAddrHbn(b, hostname, r1, r2, mallocFail, jniFail) ==
    IF HbnGuard(b, hostname)
    THEN Outcome(Null, <<UHE>>, 0, NoAnswer, NoAnswer)
    ELSE LET retry == HbnRetry(r1, mallocFail)
             hp == IF retry THEN r2 ELSE r1
             q == IF retry THEN 2 ELSE 1
             o == IF hp.ok
                  THEN IF \/ jniFail = "NewObjectArray"
                          \/ jniFail = "NewObject" /\ hp.addrs # <<>>
                       THEN JniFailed(jniFail, <<OOM>>, q, hp, NoAnswer)
                       ELSE Outcome(Ref(HbnArray(b, hp.addrs, hostname)), <<>>, q, hp,
                                    NoAnswer)
                  ELSE Outcome(Null, <<UHE>>, q, hp, NoAnswer)
         IN  Retried(o, retry, r1)

(***************************************************************************)
(* The name-service calls, as functions of the name service's answer e.    *)
(***************************************************************************)
\* getnameinfo(sa, len, host, NI_MAXHOST, NULL, 0, flags): without
\* NI_NAMEREQD an address with no name yields its numeric form.
GetNameInfo(b, sAddr, e, flags) ==
    IF ~e.ok
    THEN [error |-> TRUE, host |-> <<>>]
    ELSE IF e.hasName
    THEN [error |-> FALSE, host |-> e.name]
    ELSE IF "NI_NAMEREQD" \in flags
    THEN [error |-> TRUE, host |-> <<>>]
    ELSE [error |-> FALSE, host |-> InetNtoa(b, sAddr)]

\* gethostbyaddr_r / gethostbyname_r: hp, NULL unless an entry was found.
HostEnt(e) == IF e.ok /\ (e.hasName \/ e.addrs # <<>>) THEN Ref(e) ELSE Null

(***************************************************************************)
(* getHostByAddr (lines 266-310 and 517-579).                              *)
(***************************************************************************)
ReverseFlagsNumeric == {}

\* Lines 297-298: the flags of the reverse query.
ReverseFlags == {"NI_NAMEREQD"}

GetHostByAddrGai(b, caddr, e, jniFail) ==
    LET addr == AssembleAddr(caddr)
        sAddr == Htonl(b, addr)
        r == GetNameInfo(b, sAddr, e, ReverseFlags)
    IN  IF r.error
        THEN Outcome(Null, <<UHE>>, 1, NoAnswer, e)
        ELSE IF jniFail = "NewStringUTF"
        THEN JniFailed(jniFail, <<OOM, UHE>>, 1, NoAnswer, e)
        ELSE Outcome(Ref(r.host), <<>>, 1, NoAnswer, e)

\* Lines 557-569: the retry with the big buffer; the exception raised when
\* the buffer cannot be allocated.
HbaRetry(e1) == HostEnt(e1).null /\ e1.errno = "ERANGE"

GetHostByAddrHbn(b, caddr, e1, e2, mallocFail, jniFail) ==
    LET retry == HbaRetry(e1) /\ mallocFail # 1
        oom == IF HbaRetry(e1) /\ mallocFail = 1 THEN <<OOM>> ELSE <<>>
        e == IF retry THEN e2 ELSE e1
        hp == HostEnt(e)
        q == IF retry THEN 2 ELSE 1
        o == IF hp.null
             THEN Outcome(Null, oom \o <<UHE>>, q, NoAnswer, e)
             ELSE IF jniFail = "NewStringUTF"
             THEN JniFailed(jniFail, <<OOM>>, q, NoAnswer, e)
             ELSE Outcome(Ref(hp.val.name), <<>>, q, NoAnswer, e)
    IN  Retried(o, retry, e1)

(***************************************************************************)
(* getLocalHostName (lines 65-100 and 327-386).  g is what                 *)
(* JVM_GetHostName wrote (NULL: it failed), f the forward answer, e the    *)
(* reverse answer.                                                         *)
(***************************************************************************)
HostNameFallbackNone == <<>>

\* Lines 72 / 334: the name used when JVM_GetHostName fails.
HostNameFallback == Localhost

LocalOutcome(hostname, q, g, f, e, jniFail) ==
    IF jniFail = "NewStringUTF"
    THEN [JniFailed(jniFail, <<OOM>>, q, f, e) EXCEPT !.ghn = g]
    ELSE [Outcome(Ref(hostname), <<>>, q, f, e) EXCEPT !.ghn = g]

\* Line 91: the flags of the reverse query.
LocalFlags == {"NI_NAMEREQD"}

\* Lines 85-91: the reverse query overwrites hostname when it succeeds.
GaiCanonical(b, hostname, f, e) ==
    LET r == GetNameInfo(b, f.addrs[1], e, LocalFlags)
    IN  IF r.error THEN hostname ELSE r.host

GetLocalHostNameGai(b, g, f, e, jniFail) ==
    IF g.null
    THEN LocalOutcome(HostNameFallback, 0, g, NoAnswer, NoAnswer, jniFail)
    ELSE IF ~f.ok
    THEN LocalOutcome(g.val, 1, g, f, NoAnswer, jniFail)
    ELSE LocalOutcome(GaiCanonical(b, g.val, f, e), 2, g, f, e, jniFail)

\* Lines 377-381: the reverse name replaces hostname only when it extends
\* hostname by a dot-separated suffix.
HbnCanonical(hostname, hName) ==
    IF /\ Strlen(hName) > Strlen(hostname)
       /\ StrncmpEq(hostname, hName, Strlen(hostname))
       /\ CharAt(hName, Strlen(hostname)) = "."
    THEN hName
    ELSE hostname

GetLocalHostNameHbn(b, g, f, e, jniFail) ==
    IF g.null
    THEN LocalOutcome(HostNameFallback, 0, g, NoAnswer, NoAnswer, jniFail)
    ELSE IF HostEnt(f).null
    THEN LocalOutcome(g.val, 1, g, f, NoAnswer, jniFail)
    ELSE IF HostEnt(e).null
    THEN LocalOutcome(g.val, 2, g, f, e, jniFail)
    ELSE LocalOutcome(HbnCanonical(g.val, e.name), 2, g, f, e, jniFail)

(***************************************************************************)
(* The reachability prober (lines 583-850).                                *)
(***************************************************************************)
ProcessId == 70000          \* getpid()

Pid == ProcessId % 65536    \* line 612: (jchar)getpid()

SliceMs == 1000             \* lines 670, 692: one request per second

Swap16(x) == ((x % 256) * 256) + ((x \div 256) % 256)

Htons(b, x) == IF BigEndian(b) THEN x % 65536 ELSE Swap16(x % 65536)

Ntohs(b, x) == IF BigEndian(b) THEN x % 65536 ELSE Swap16(x % 65536)

\* The descriptor fd as the OS sees it.  misuse: a call was made on it, or
\* it was closed, while it was not open.
NoSocket == [state |-> "none", closes |-> 0, misuse |-> FALSE]

Opened == [state |-> "open", closes |-> 0, misuse |-> FALSE]

Use(s) == [s EXCEPT !.misuse = @ \/ s.state # "open"]

Close(s) == [state |-> "closed", closes |-> s.closes + 1,
             misuse |-> s.misuse \/ s.state # "open"]

Timeouts == {t \in (0 - Tick)..MaxTimeout : t % Tick = 0}

Targets == {<<10, 0, 0, 1>>, <<127, 0, 0, 1>>}

Interfaces == {Null, Ref(<<127, 0, 0, 1>>)}

Ttls == {0, 64}

\* NET_Wait(env, fd, flags, budget): waits for an event for at most budget
\* ms; returns what is left of the budget (>= 0) when the event came, and
\* a negative number when the budget ran out first.
NetWait(budget) ==
    IF budget <= 0
    THEN {-1, 0}
    ELSE {-1} \cup {r \in 0..budget : r % Tick = 0 \/ r = budget}

\* The time a NET_Wait call took that was given `budget` and returned w.
Elapsed(budget, w) ==
    IF budget <= 0 THEN 0
    ELSE IF w >= 0 THEN budget - w
    ELSE budget

WaitKind(budget) == IF budget > 0 THEN "positive" ELSE "nonpositive"

\* The bookkeeping of one NET_Wait call.
Waits(budget, w) ==
    /\ waited' = waited + Elapsed(budget, w)
    /\ waitKinds' = waitKinds \cup {WaitKind(budget)}

\* What recvfrom can deliver: nothing (n = -1), or a packet with its ICMP
\* length, type, identifier (as on the wire) and source address.
NoPacket == [icmplen |-> -1, type |-> "NONE", id |-> 0, src |-> 0]

Packets(b, target) ==
    [icmplen : {4, 16}, type : {"ICMP_ECHOREPLY", "ICMP_UNREACH"},
     id : {Htons(b, Pid), Htons(b, Pid + 1)},
     src : {target, Htonl(b, AssembleAddr(<<10, 0, 0, 2>>))}]

MatchesAnySource(b, p, target) ==
    /\ p.icmplen >= 8
    /\ p.type = "ICMP_ECHOREPLY"
    /\ Ntohs(b, p.id) = Pid

\* Lines 684-686: is this the reply we are waiting for?
Matches(b, p, target) ==
    /\ p.icmplen >= 8
    /\ p.type = "ICMP_ECHOREPLY"
    /\ Ntohs(b, p.id) = Pid
    /\ target = p.src

\* errno after sendto ("OK": n >= 0)
SendResults == {"OK", "EINPROGRESS", "EAGAIN", "EINVAL", "EPERM"}

\* errno after JVM_Connect ("OK": connect_rv = 0)
ConnectResults == {"OK", "ECONNREFUSED", "ENETUNREACH", "EAFNOSUPPORT",
                   "EADDRNOTAVAIL", "EINVAL", "EINPROGRESS", "EACCES"}

\* SO_ERROR of the socket ("EBADF": JVM_GetSockOpt itself failed)
PendingErrors == {"OK", "ECONNREFUSED", "ETIMEDOUT", "EHOSTUNREACH", "EBADF"}

ProberIdle ==
    /\ him = 0
    /\ netif = Null
    /\ ttl = 0
    /\ timeout = 0
    /\ tmout2 = 0
    /\ seq = 1
    /\ tried = <<>>
    /\ sock = NoSocket
    /\ sent = <<>>
    /\ pkt = NoPacket
    /\ reachable = FALSE
    /\ timeoutMs = 0
    /\ bound = "none"
    /\ conn = "NONE"
    /\ waited = 0
    /\ waitKinds = {}
    /\ soerr = "NONE"

\* return r, after closing fd
CloseAndReturn(s, r) ==
    /\ sock' = Close(s)
    /\ reachable' = r
    /\ pc' = "done"

\* Lines 709-751: the arguments are unpacked; an address that is not four
\* bytes long is unreachable.
IsReachable0Call ==
    /\ pc = "idle"
    /\ op' = "isReachable0"
    /\ \E sz \in {4, 16}, caddr \in Targets, t \in Timeouts, nif \in Interfaces, l \in Ttls :
        /\ timeout' = t
        /\ timeoutMs' = t
        /\ ttl' = l
        /\ IF sz # 4
           THEN pc' = "done" /\ UNCHANGED <<him, netif>>
           ELSE /\ pc' = "raw_socket"
                /\ him' = Htonl(build, AssembleAddr(caddr))
                /\ netif' = nif
    /\ UNCHANGED <<concVars, build, thrown, resolverVars, tmout2, seq, tried, sock, sent, pkt, reachable,
                   bound, conn, waited, waitKinds, soerr>>

AfterRawFailureGiveUp == "done"

\* Lines 758-768: where the call goes when the raw socket cannot be opened.
AfterRawFailure == "tcp_socket"

\* Lines 757-763: JVM_Socket(AF_INET, SOCK_RAW, IPPROTO_ICMP).
RawSocket ==
    /\ pc = "raw_socket"
    /\ \E ok \in BOOLEAN :
        /\ tried' = Append(tried, [kind |-> "raw", ok |-> ok])
        /\ IF ok
           THEN sock' = Opened /\ pc' = "ping4"
           ELSE UNCHANGED sock /\ pc' = AfterRawFailure
    /\ UNCHANGED <<concVars, build, op, thrown, resolverVars, him, netif, ttl, timeout, tmout2, seq,
                   sent, pkt, reachable, traceVars>>

\* Lines 613-620 / 777-779: SO_RCVBUF (ping4 only) and IP_TTL.
SetOptions(s, l, rcvbuf) ==
    LET s1 == IF rcvbuf THEN Use(s) ELSE s
    IN  IF l > 0 THEN Use(s1) ELSE s1

PingBindFailedFallBack(s) ==
    /\ sock' = Close(Use(s))
    /\ pc' = "tcp_socket"
    /\ UNCHANGED <<thrown, reachable>>

\* Lines 626-630: the bind of the raw socket failed.
PingBindFailed(s) ==
    /\ thrown' = Append(thrown, "Can't bind socket")
    /\ CloseAndReturn(Use(s), FALSE)

\* Lines 611-635: ping4 up to the loop.
Ping4Start ==
    /\ pc = "ping4"
    /\ seq' = 1
    /\ LET s == SetOptions(sock, ttl, TRUE)
       IN  \/ /\ ~netif.null
              /\ bound' = "failed"
              /\ PingBindFailed(s)
           \/ /\ bound' = IF netif.null THEN "none" ELSE "ok"
              /\ sock' = Use(Use(IF netif.null THEN s ELSE Use(s)))
              /\ pc' = "ping_send"
              /\ UNCHANGED <<thrown, reachable>>
    /\ UNCHANGED <<concVars, build, op, resolverVars, him, netif, ttl, timeout, tmout2, tried, sent, pkt,
                   timeoutMs, conn, waited, waitKinds, soerr>>

PingSendFailedLeak(b, s, errno) ==
    /\ thrown' = IF IsLinux(b) /\ errno = "EINVAL"
                 THEN thrown
                 ELSE Append(thrown, "Can't send ICMP packet")
    /\ sock' = s
    /\ reachable' = FALSE
    /\ pc' = "done"

\* Lines 656-668: sendto failed.
PingSendFailed(b, s, errno) ==
    /\ thrown' = IF IsLinux(b) /\ errno = "EINVAL"
                 THEN thrown
                 ELSE Append(thrown, "Can't send ICMP packet")
    /\ CloseAndReturn(s, FALSE)

\* Line 656: is this sendto result a failure?
SendFailed(errno) == errno \notin {"OK", "EINPROGRESS"}

SliceBudgetWhole(t) == SliceMs

\* Line 670: tmout2 = timeout > 1000 ? 1000 : timeout
SliceBudget(t) == IF t > SliceMs THEN SliceMs ELSE t

NextSeqSame(n) == n

\* Line 645: seq++
NextSeq(n) == n + 1

\* Lines 636-670: one echo request.
PingSend ==
    /\ pc = "ping_send"
    /\ seq' = NextSeq(seq)
    /\ \E errno \in SendResults :
        /\ sent' = Append(sent, [id |-> Htons(build, Pid), seq |-> Htons(build, seq),
                                 errno |-> errno])
        /\ IF SendFailed(errno)
           THEN PingSendFailed(build, Use(sock), errno) /\ UNCHANGED tmout2
           ELSE /\ tmout2' = SliceBudget(timeout)
                /\ sock' = Use(sock)
                /\ pc' = "ping_wait"
                /\ UNCHANGED <<thrown, reachable>>
    /\ UNCHANGED <<concVars, build, op, resolverVars, him, netif, ttl, timeout, tried, pkt, traceVars>>

SendAgainAtZero(t) == t >= 0

\* Line 693: while (timeout > 0)
SendAgain(t) == t > 0

PingTimedOutFallBack(s) ==
    /\ sock' = Close(s)
    /\ pc' = "tcp_socket"
    /\ UNCHANGED reachable

\* Lines 694-695: the timeout ran out without a reply.
PingTimedOut(s) == CloseAndReturn(s, FALSE)

\* Lines 691-695: after a wait that did not end the call.
PingNext(s, w) ==
    IF w > 0
    THEN pc' = "ping_wait" /\ sock' = s /\ UNCHANGED <<timeout, reachable>>
    ELSE /\ timeout' = timeout - SliceMs
         /\ IF SendAgain(timeout')
            THEN pc' = "ping_send" /\ sock' = s /\ UNCHANGED reachable
            ELSE PingTimedOut(s)

\* Lines 687-688: the reply arrived.
PingReplied(s) == CloseAndReturn(s, TRUE) /\ UNCHANGED timeout

WaitBudgetFresh(t, t2) == IF t > SliceMs THEN SliceMs ELSE t

\* Line 672: the budget handed to NET_Wait is what the last wait left.
WaitBudget(t, t2) == t2

\* Lines 671-693: one NET_Wait and the packet it announces.
PingWait ==
    /\ pc = "ping_wait"
    /\ \E w \in NetWait(WaitBudget(timeout, tmout2)) :
        /\ tmout2' = w
        /\ Waits(WaitBudget(timeout, tmout2), w)
        /\ IF w >= 0
           THEN \E p \in Packets(build, him) \cup {NoPacket} :
                    /\ pkt' = p
                    /\ IF Matches(build, p, him)
                       THEN PingReplied(Use(Use(sock)))
                       ELSE PingNext(Use(Use(sock)), w)
           ELSE UNCHANGED pkt /\ PingNext(Use(sock), w)
    /\ UNCHANGED <<concVars, build, op, thrown, resolverVars, him, netif, ttl, seq, tried, sent,
                   timeoutMs, bound, conn, soerr>>

TcpSocketFailedQuietly ==
    /\ pc' = "done"
    /\ UNCHANGED <<thrown, sock, reachable>>

\* Lines 768-776: where the call goes when the stream socket cannot be
\* opened either.
TcpSocketFailed ==
    /\ thrown' = Append(thrown, "Can't create socket")
    /\ pc' = "done"
    /\ UNCHANGED <<sock, reachable>>

\* Lines 768-779: JVM_Socket(AF_INET, SOCK_STREAM, 0).
TcpSocket ==
    /\ pc = "tcp_socket"
    /\ \E ok \in BOOLEAN :
        /\ tried' = Append(tried, [kind |-> "stream", ok |-> ok])
        /\ IF ok
           THEN /\ sock' = SetOptions(Opened, ttl, FALSE)
                /\ pc' = "tcp_bind"
                /\ UNCHANGED <<thrown, reachable>>
           ELSE TcpSocketFailed
    /\ UNCHANGED <<concVars, build, op, resolverVars, him, netif, ttl, timeout, tmout2, seq, sent, pkt,
                   traceVars>>

\* Lines 785-789: the bind of the stream socket failed.
TcpBindFailed(s) ==
    /\ thrown' = Append(thrown, "Can't bind socket")
    /\ CloseAndReturn(Use(s), FALSE)

\* Lines 781-795: bind to the interface, make the socket non-blocking.
TcpBind ==
    /\ pc = "tcp_bind"
    /\ \/ /\ ~netif.null
          /\ bound' = "failed"
          /\ TcpBindFailed(sock)
       \/ /\ bound' = IF netif.null THEN "none" ELSE "ok"
          /\ sock' = Use(Use(IF netif.null THEN sock ELSE Use(sock)))
          /\ pc' = "tcp_connect"
          /\ UNCHANGED <<thrown, reachable>>
    /\ UNCHANGED <<concVars, build, op, resolverVars, him, netif, ttl, timeout, tmout2, seq, tried,
                   sent, pkt, timeoutMs, conn, waited, waitKinds, soerr>>

ConnectUnreachableNoAddress(b) ==
    {"ENETUNREACH", "EAFNOSUPPORT"} \cup (IF IsLinux(b) THEN {"EINVAL"} ELSE {})

\* Lines 812-825: the errno values that mean "unreachable".
ConnectUnreachable(b) ==
    {"ENETUNREACH", "EAFNOSUPPORT", "EADDRNOTAVAIL"}
        \cup (IF IsLinux(b) THEN {"EINVAL"} ELSE {})

ConnectReachedOnlyConnected == {"OK"}

\* Line 805: connection established or refused immediately.
ConnectReached == {"OK", "ECONNREFUSED"}

\* Lines 797-832: the connect to the echo port and its immediate result.
TcpConnect ==
    /\ pc = "tcp_connect"
    /\ \E errno \in ConnectResults :
        LET s == Use(sock)
        IN  /\ conn' = errno
            /\ IF errno \in ConnectReached
               THEN CloseAndReturn(s, TRUE) /\ UNCHANGED thrown
               ELSE IF errno \in ConnectUnreachable(build)
               THEN CloseAndReturn(s, FALSE) /\ UNCHANGED thrown
               ELSE IF errno # "EINPROGRESS"
               THEN /\ thrown' = Append(thrown, "connect failed")
                    /\ CloseAndReturn(s, FALSE)
               ELSE /\ sock' = s
                    /\ pc' = "tcp_wait"
                    /\ UNCHANGED <<thrown, reachable>>
    /\ UNCHANGED <<concVars, build, op, resolverVars, him, netif, ttl, timeout, tmout2, seq, tried,
                   sent, pkt, timeoutMs, bound, waited, waitKinds, soerr>>

PendingReachedOnlyConnected == {"OK"}

\* Line 842: connect_rv == 0 || connect_rv == ECONNREFUSED
PendingReached == {"OK", "ECONNREFUSED"}

\* Lines 834-848: wait for the connection, then read SO_ERROR.
TcpWait ==
    /\ pc = "tcp_wait"
    /\ \E w \in NetWait(timeout) :
        /\ timeout' = w
        /\ Waits(timeout, w)
        /\ IF w >= 0
           THEN \E e \in PendingErrors :
                    /\ soerr' = e
                    /\ CloseAndReturn(Use(Use(sock)), e \in PendingReached)
           ELSE UNCHANGED soerr /\ CloseAndReturn(Use(sock), FALSE)
    /\ UNCHANGED <<concVars, build, op, thrown, resolverVars, him, netif, ttl, tmout2, seq, tried,
                   sent, pkt, timeoutMs, bound, conn>>

(***************************************************************************)
(* The resolver's entry points as actions.  Each native method runs to     *)
(* completion in one step; the name service's answers and the allocation   *)
(* that fails are chosen by the environment.                               *)
(***************************************************************************)
ResolverIdle ==
    /\ arg = Null
    /\ ret = Null
    /\ queries = 0
    /\ ghn = Null
    /\ fwd = NoAnswer
    /\ rev = NoAnswer
    /\ jni = "none"
    /\ retried = NoAnswer

Leaves(name, a, o) ==
    /\ op' = name
    /\ arg' = a
    /\ ret' = o.ret
    /\ thrown' = o.thrown
    /\ queries' = o.queries
    /\ ghn' = o.ghn
    /\ fwd' = o.fwd
    /\ rev' = o.rev
    /\ jni' = o.jni
    /\ retried' = o.retried
    /\ UNCHANGED <<build, proberVars>>

Returns(name, a, o) == pc' = "done" /\ Leaves(name, a, o)

\* Lines 138-141 / 427-430: a null host string.
LookupNullHost ==
    /\ pc = "idle"
    /\ Returns("lookupAllHostAddr", Null, Outcome(Null, <<NPE>>, 0, NoAnswer, NoAnswer))
    /\ UNCHANGED concVars

LookupAllHostAddrGaiCall ==
    /\ pc = "idle"
    /\ UsesGetaddrinfo(build)
    /\ \E hostname \in HostNames, r \in ForwardAnswers(build),
          mallocFail \in 0..MaxRecords, jniFail \in JniFailures :
            Returns("lookupAllHostAddr", Ref(hostname),
                    LookupAllHostAddrGai(build, hostname, r, mallocFail, jniFail))
    /\ UNCHANGED concVars

LookupAllHostAddrHbnCall ==
    /\ pc = "idle"
    /\ ~UsesGetaddrinfo(build)
    /\ \E hostname \in HostNames, r1 \in ForwardAnswers(build),
          mallocFail \in 0..1, jniFail \in JniFailures :
            IF HbnRetry(r1, mallocFail) /\ ~HbnGuard(build, hostname)
            THEN \E r2 \in ForwardAnswers(build) :
                    Returns("lookupAllHostAddr", Ref(hostname),
                            LookupAllHostAddrHbn(build, hostname, r1, r2, mallocFail, jniFail))
            ELSE Returns("lookupAllHostAddr", Ref(hostname),
                         LookupAllHostAddrHbn(build, hostname, r1, r1, mallocFail, jniFail))
    /\ UNCHANGED concVars

GetHostByAddrGaiCall ==
    /\ pc = "idle"
    /\ UsesGetaddrinfo(build)
    /\ \E caddr \in ByteAddrs, e \in ReverseAnswers, jniFail \in {"none", "NewStringUTF"} :
            Returns("getHostByAddr", Ref(caddr), GetHostByAddrGai(build, caddr, e, jniFail))
    /\ UNCHANGED concVars

GetHostByAddrHbnCall ==
    /\ pc = "idle"
    /\ ~UsesGetaddrinfo(build)
    /\ \E caddr \in ByteAddrs, e1 \in ReverseAnswers, mallocFail \in 0..1,
          jniFail \in {"none", "NewStringUTF"} :
            IF HbaRetry(e1) /\ mallocFail # 1
            THEN \E e2 \in ReverseAnswers :
                    Returns("getHostByAddr", Ref(caddr),
                            GetHostByAddrHbn(build, caddr, e1, e2, mallocFail, jniFail))
            ELSE Returns("getHostByAddr", Ref(caddr),
                         GetHostByAddrHbn(build, caddr, e1, e1, mallocFail, jniFail))
    /\ UNCHANGED concVars

\* What JVM_GetHostName can leave in hostname, and the answers to the
\* forward query for it (the host's own address is 127.0.0.1 here).
HostNameReads == {Null} \cup {Ref(n) : n \in Names}

LocalForwardAnswers(b) ==
    {Answer(FALSE, "HOST_NOT_FOUND", <<>>, FALSE, <<>>),
     Answer(TRUE, "NONE", <<Htonl(b, AssembleAddr(<<127, 0, 0, 1>>))>>, FALSE, <<>>)}

GetLocalHostNameCall ==
    /\ pc = "idle"
    /\ \E g \in HostNameReads, f \in LocalForwardAnswers(build), e \in ReverseAnswers,
          jniFail \in {"none", "NewStringUTF"} :
            Returns("getLocalHostName", Null,
                    IF UsesGetaddrinfo(build)
                    THEN GetLocalHostNameGai(build, g, f, e, jniFail)
                    ELSE GetLocalHostNameHbn(build, g, f, e, jniFail))
    /\ UNCHANGED concVars

\* The caller takes the result; the next call starts from a clean slate.
Return ==
    /\ pc = "done"
    /\ pc' = "idle"
    /\ op' = "none"
    /\ thrown' = <<>>
    /\ arg' = Null
    /\ ret' = Null
    /\ queries' = 0
    /\ ghn' = Null
    /\ fwd' = NoAnswer
    /\ rev' = NoAnswer
    /\ jni' = "none"
    /\ retried' = NoAnswer
    /\ him' = 0
    /\ netif' = Null
    /\ ttl' = 0
    /\ timeout' = 0
    /\ tmout2' = 0
    /\ seq' = 1
    /\ tried' = <<>>
    /\ sock' = NoSocket
    /\ sent' = <<>>
    /\ pkt' = NoPacket
    /\ reachable' = FALSE
    /\ timeoutMs' = 0
    /\ bound' = "none"
    /\ conn' = "NONE"
    /\ waited' = 0
    /\ waitKinds' = {}
    /\ soerr' = "NONE"
    /\ UNCHANGED build
    /\ UNCHANGED concVars

(***************************************************************************)
(* Specifications.                                                         *)
(***************************************************************************)
(***************************************************************************)
(* Two threads of one process inside ping4 at the same time, each with its *)
(* own raw socket.  Both take their identifier from getpid() (line 612).   *)
(* The kernel hands a copy of every ICMP packet that arrives to every raw  *)
(* ICMP socket that is open, so each caller's recvfrom (line 675) sees the *)
(* replies to the requests of both.  A packet carries, besides what is on  *)
(* the wire, the caller whose request it answers.                          *)
(***************************************************************************)
Callers == {1, 2}

ConcTimeouts == {SliceMs, 2 * SliceMs}

ConcNoPacket ==
    [icmplen |-> -1, type |-> "NONE", id |-> 0, src |-> 0, seq |-> 0, from |-> 0]

IdleCall ==
    [pc |-> "idle", him |-> 0, routed |-> FALSE, timeout |-> 0, tmout2 |-> 0,
     seq |-> 1, queue |-> <<>>, pkt |-> ConcNoPacket, reachable |-> FALSE,
     thrown |-> <<>>]

\* The echo reply of the target to the request r: identifier and sequence
\* number are copied from the request.
EchoReply(r) ==
    [icmplen |-> 16, type |-> "ICMP_ECHOREPLY", id |-> r.id, src |-> r.dst,
     seq |-> r.seq, from |-> r.from]

SocketOpen(k) == k.pc \in {"ping_send", "ping_wait"}

\* isReachable0 has opened the raw socket and enters ping4 (lines 758-763,
\* 610-612).  `routed` says whether the requests of this call can get to the
\* target (they cannot when its ttl is too small or its interface has no
\* route).
ConcCall ==
    /\ \E c \in Callers, caddr \in Targets, t \in ConcTimeouts, r \in BOOLEAN :
        /\ calls[c].pc = "idle"
        /\ calls' = [calls EXCEPT ![c] =
                        [IdleCall EXCEPT !.pc = "ping_send",
                                         !.him = Htonl(build, AssembleAddr(caddr)),
                                         !.routed = r,
                                         !.timeout = t]]
    /\ UNCHANGED <<wire, build, pc, op, thrown, resolverVars, proberVars>>

\* Lines 636-670 for one caller.
ConcSend ==
    /\ \E c \in Callers, errno \in {"OK", "EPERM"} :
        LET k == calls[c]
            req == [id |-> Htons(build, Pid), seq |-> Htons(build, k.seq),
                    dst |-> k.him, from |-> c]
        IN  /\ k.pc = "ping_send"
            /\ IF SendFailed(errno)
               THEN /\ calls' = [calls EXCEPT ![c] =
                                    [k EXCEPT !.pc = "done",
                                              !.seq = NextSeq(k.seq),
                                              !.thrown = <<"Can't send ICMP packet">>]]
                    /\ UNCHANGED wire
               ELSE /\ calls' = [calls EXCEPT ![c] =
                                    [k EXCEPT !.pc = "ping_wait",
                                              !.seq = NextSeq(k.seq),
                                              !.tmout2 = SliceBudget(k.timeout)]]
                    /\ wire' = IF k.routed THEN wire \cup {req} ELSE wire
    /\ UNCHANGED <<build, pc, op, thrown, resolverVars, proberVars>>

\* The target answers a request; the reply is queued on every raw socket
\* that is open.
ConcReply ==
    /\ \E r \in wire :
        /\ wire' = wire \ {r}
        /\ calls' = [c \in Callers |->
                        IF SocketOpen(calls[c])
                        THEN [calls[c] EXCEPT !.queue = Append(@, EchoReply(r))]
                        ELSE calls[c]]
    /\ UNCHANGED <<build, pc, op, thrown, resolverVars, proberVars>>

\* Lines 691-695 for one caller whose locals are k and whose wait left w.
ConcNext(k, w) ==
    IF w > 0
    THEN k
    ELSE LET t == k.timeout - SliceMs
         IN  [k EXCEPT !.timeout = t,
                       !.pc = IF SendAgain(t) THEN "ping_send" ELSE "done"]

\* Lines 671-690 for one caller: NET_Wait reports the socket readable when
\* its queue holds a packet and runs out of time when it does not.
ConcWait ==
    /\ \E c \in Callers :
        LET k == calls[c]
        IN  /\ k.pc = "ping_wait"
            /\ \E w \in NetWait(WaitBudget(k.timeout, k.tmout2)) :
                /\ w >= 0 <=> k.queue # <<>>
                /\ IF w >= 0
                   THEN LET p == Head(k.queue)
                            got == [k EXCEPT !.tmout2 = w, !.pkt = p,
                                             !.queue = Tail(k.queue)]
                        IN  calls' = [calls EXCEPT ![c] =
                                        IF Matches(build, p, k.him)
                                        THEN [got EXCEPT !.pc = "done", !.reachable = TRUE]
                                        ELSE ConcNext(got, w)]
                   ELSE calls' = [calls EXCEPT ![c] = ConcNext([k EXCEPT !.tmout2 = w], w)]
    /\ UNCHANGED <<wire, build, pc, op, thrown, resolverVars, proberVars>>

Init ==
    /\ build \in Builds
    /\ pc = "idle"
    /\ op = "none"
    /\ thrown = <<>>
    /\ ResolverIdle
    /\ ProberIdle
    /\ calls = [c \in Callers |-> IdleCall]
    /\ wire = {}

NextResolver ==
    \/ LookupNullHost
    \/ LookupAllHostAddrGaiCall
    \/ LookupAllHostAddrHbnCall
    \/ GetHostByAddrGaiCall
    \/ GetHostByAddrHbnCall
    \/ GetLocalHostNameCall
    \/ Return

NextProber ==
    \/ IsReachable0Call
    \/ RawSocket
    \/ Ping4Start
    \/ PingSend
    \/ PingWait
    \/ TcpSocket
    \/ TcpBind
    \/ TcpConnect
    \/ TcpWait
    \/ Return

NextConcurrent ==
    \/ ConcCall
    \/ ConcSend
    \/ ConcReply
    \/ ConcWait

Next == NextResolver \/ NextProber \/ NextConcurrent

SpecResolver == Init /\ [][NextResolver]_vars

SpecProber == Init /\ [][NextProber]_vars

SpecConcurrent == Init /\ [][NextConcurrent]_vars

Spec == Init /\ [][Next]_vars

(***************************************************************************)
(* Properties.                                                             *)
(***************************************************************************)
Returned(name) == pc = "done" /\ op = name

Has(s, x) == \E i \in 1..Len(s) : s[i] = x

NoDuplicates(s) == \A i, j \in 1..Len(s) : i # j => s[i] # s[j]

AddrsOf(list) == [k \in 1..Len(list) |-> list[k].addr]

\* The integer addresses of the record stream the resolver returned.
StreamAddrs == [k \in 1..Len(fwd.addrs) |-> Ntohl(build, fwd.addrs[k])]

RECURSIVE FirstOccurrences(_, _)
FirstOccurrences(s, seen) ==
    IF s = <<>> THEN <<>>
    ELSE IF Head(s) \in seen THEN FirstOccurrences(Tail(s), seen)
    ELSE <<Head(s)>> \o FirstOccurrences(Tail(s), seen \cup {Head(s)})

LookupSucceeded == Returned("lookupAllHostAddr") /\ ~ret.null

\* C1: the list lookupAllHostAddr returns holds no address twice, whatever
\* record stream the resolver returned, in both build variants.
C1_NoDuplicateAddresses == LookupSucceeded => NoDuplicates(AddrsOf(ret.val))

\* C2: the k-th entry of the list lookupAllHostAddr returns is the k-th
\* distinct address of the resolver's record stream, in first-occurrence order.
C2_FirstOccurrenceOrder ==
    LookupSucceeded => AddrsOf(ret.val) = FirstOccurrences(StreamAddrs, {})

LookupWith(cond) == Returned("lookupAllHostAddr") /\ ~arg.null /\ cond

FailsUnqueried == ret.null /\ thrown = <<UHE>> /\ queries = 0

\* The builds that compile a whitespace guard.
GuardedBuild == UsesGetaddrinfo(build) \/ IsSolaris(build)

\* C3 as stated: the empty name, and every name that starts with whitespace,
\* fails with UnknownHost without the resolver being queried.
C3_EmptyOrWhitespaceUnqueried ==
    LookupWith(arg.val = <<>> \/ Isspace(CharAt(arg.val, 0))) => FailsUnqueried

\* C3 as amended: a name that starts with whitespace fails with UnknownHost
\* without a query in the getaddrinfo variant and in the Solaris build of
\* the gethostbyname_r variant; every other call, the empty name included,
\* queries the resolver.
C3_WhitespaceGuard ==
    /\ LookupWith(Isspace(CharAt(arg.val, 0)) /\ GuardedBuild) => FailsUnqueried
    /\ LookupWith(~(Isspace(CharAt(arg.val, 0)) /\ GuardedBuild)) => queries >= 1

C3_Witness ==
    /\ LookupWith(Isspace(CharAt(arg.val, 0)) /\ GuardedBuild)
    /\ Len(arg.val) > 1
    /\ FailsUnqueried

\* C4: when the resolver's answer is an error, or a success with no address
\* record, lookupAllHostAddr raises UnknownHost; it never returns an empty
\* list.
C4_NoEmptySuccess ==
    /\ LookupWith(queries >= 1 /\ (~fwd.ok \/ fwd.addrs = <<>>))
            => ret.null /\ Has(thrown, UHE)
    /\ LookupSucceeded => ret.val # <<>>

\* C5 as stated: every entry carries the canonical name the resolver
\* reported, and the input name only when it reported none.
C5_TagIsCanonicalName ==
    LookupSucceeded =>
        \A k \in 1..Len(ret.val) :
            ret.val[k].hostName = IF fwd.hasName THEN fwd.name ELSE arg.val

\* C5 as amended: every entry carries the input name, whether or not the
\* resolver reported a canonical name.
C5_TagIsInputName ==
    LookupSucceeded => \A k \in 1..Len(ret.val) : ret.val[k].hostName = arg.val

C5_Witness ==
    /\ LookupSucceeded
    /\ Len(ret.val) >= 2
    /\ fwd.hasName
    /\ fwd.name # arg.val
    /\ \A k \in 1..Len(ret.val) : ret.val[k].hostName = arg.val

\* The reverse query of this call produced a name.
ReverseNamed == rev.ok /\ rev.hasName

\* C6: getHostByAddr returns a host name only when the reverse query
\* produced that name, and raises UnknownHost when the query failed or
\* produced none; the numeric form of the address is never returned.
C6_ReverseNeedsName ==
    Returned("getHostByAddr") =>
        /\ ~ret.null =>
                /\ ReverseNamed
                /\ ret.val = rev.name
                /\ ret.val # InetNtoa(build, Htonl(build, AssembleAddr(arg.val)))
        /\ ~ReverseNamed => ret.null /\ Has(thrown, UHE)

C6_Witness ==
    /\ Returned("getHostByAddr")
    /\ rev.ok
    /\ ~rev.hasName
    /\ ret.null
    /\ thrown = <<UHE>>

LocalReturned == Returned("getLocalHostName") /\ jni = "none"

\* C7: getLocalHostName raises nothing and returns a name whatever the OS
\* does: "localhost" when the host name cannot be read, the OS-reported name
\* when the forward or the reverse lookup fails.
C7_LocalNeverFails ==
    LocalReturned =>
        /\ thrown = <<>>
        /\ ~ret.null
        /\ ghn.null => ret.val = Localhost
        /\ ~ghn.null /\ (~fwd.ok \/ ~ReverseNamed) => ret.val = ghn.val

C7_Witness ==
    /\ LocalReturned
    /\ ~ghn.null
    /\ fwd.ok
    /\ queries = 2
    /\ ~rev.ok
    /\ thrown = <<>>
    /\ ret = ghn

\* n is raw, then a dot, then further characters
DotExtension(raw, n) ==
    /\ Len(n) > Len(raw)
    /\ SubSeq(n, 1, Len(raw)) = raw
    /\ n[Len(raw) + 1] = "."

\* C8: getLocalHostName returns the reverse-resolved name when that name
\* extends the OS-reported name by a dot and further characters, and the
\* OS-reported name for every other reverse-resolved name.
C8_OnlyDotExtension ==
    LocalReturned /\ ~ghn.null =>
        ret.val = IF fwd.ok /\ ReverseNamed /\ DotExtension(ghn.val, rev.name)
                  THEN rev.name
                  ELSE ghn.val

RawFailed == op = "isReachable0" /\ tried # <<>> /\ ~tried[1].ok

\* C9: when the raw socket cannot be opened, isReachable0 raises nothing
\* for it and goes on to open a stream socket.
C9_RawFailureFallsBack ==
    RawFailed =>
        /\ tried[1].kind = "raw"
        /\ pc \in {"tcp_socket", "tcp_bind", "tcp_connect", "tcp_wait", "done"}
        /\ pc = "tcp_socket" => thrown = <<>> /\ Len(tried) = 1
        /\ pc # "tcp_socket" => Len(tried) = 2 /\ tried[2].kind = "stream"

C9_Witness ==
    /\ RawFailed
    /\ pc = "done"
    /\ Len(tried) = 2
    /\ tried[2].ok
    /\ reachable
    /\ thrown = <<>>

Opens == Cardinality({i \in 1..Len(tried) : tried[i].ok})

\* C10: when isReachable0 returns, each socket it opened has been closed
\* exactly once, and no call was made on a socket that was not open.
C10_SocketsClosedOnce ==
    op = "isReachable0" =>
        /\ ~sock.misuse
        /\ sock.closes <= Opens
        /\ pc = "done" => sock.state # "open" /\ sock.closes = Opens

C10_Witness ==
    /\ Returned("isReachable0")
    /\ sock.state = "closed"
    /\ sock.closes = 1
    /\ thrown = <<"Can't send ICMP packet">>
    /\ ~reachable

Probing == op = "isReachable0" /\ pc \notin {"idle", "done"}

IcmpMode == op = "isReachable0" /\ tried # <<>> /\ tried[1].ok

TcpMode == op = "isReachable0" /\ Len(tried) = 2 /\ tried[2].ok

Max(a, b) == IF a >= b THEN a ELSE b

\* The time a budget variable still allows: NET_Wait answers -1 when the
\* budget has run out, and a value below zero allows no more than zero does.
Budget(t) == Max(t, 0)

\* One step of a running call never raises the remaining budget; a wait
\* that stays in its slice leaves at most the budget it was given; the
\* overall budget of ping4 changes only at the end of a slice, by SliceMs.
BudgetStep ==
    Probing =>
        /\ Budget(timeout') <= Budget(timeout)
        /\ pc = "ping_wait" /\ pc' = "ping_wait" => tmout2' <= tmout2
        /\ IcmpMode =>
               IF pc = "ping_wait" /\ pc' # "ping_wait" /\ ~reachable'
               THEN timeout' = timeout - SliceMs
               ELSE timeout' = timeout

\* How far a call is from returning: the stage it is in, then, inside the
\* loop of ping4, the overall budget, whether the request of the slice is
\* still to be sent, and the budget left in the slice.
Stage(p) ==
    CASE p = "raw_socket" -> 7
      [] p = "ping4" -> 6
      [] p \in {"ping_send", "ping_wait"} -> 5
      [] p = "tcp_socket" -> 4
      [] p = "tcp_bind" -> 3
      [] p = "tcp_connect" -> 2
      [] p = "tcp_wait" -> 1
      [] OTHER -> 0

Measure(p, t, u) == <<Stage(p), t, IF p = "ping_send" THEN 1 ELSE 0, u>>

LexLess(a, b) ==
    \E i \in 1..4 : a[i] < b[i] /\ \A j \in 1..(i - 1) : a[j] = b[j]

\* A NET_Wait that returned the whole budget: no time has passed.
ZeroTimeWait ==
    /\ pc = "ping_wait"
    /\ pc' = "ping_wait"
    /\ tmout2' = tmout2
    /\ timeout' = timeout
    /\ waited' = waited

\* Each step of a running call brings it nearer to its return, except a
\* wait during which the clock has not moved.
TerminationStep ==
    Probing =>
        \/ LexLess(Measure(pc', timeout', tmout2'), Measure(pc, timeout, tmout2))
        \/ ZeroTimeWait

\* C11: every isReachable0 call returns (each step but a wait in which no
\* time passes brings it nearer to the return, and the stages, the budgets
\* and their sums are bounded below); while it runs the remaining budget
\* never increases (the slice budget left after a packet that does not match
\* is at most what it was, the overall budget drops by 1000 ms per request),
\* and the time spent in NET_Wait during one call is at most
\* max(timeoutMs, 0).
C11_TerminatesWithinBudget ==
    /\ [](op = "isReachable0" => waited <= Max(timeoutMs, 0))
    /\ [][BudgetStep /\ TerminationStep]_vars

C11_Witness ==
    /\ Returned("isReachable0")
    /\ IcmpMode
    /\ Len(sent) >= 2
    /\ pkt # NoPacket
    /\ ~Matches(build, pkt, him)
    /\ ~reachable
    /\ waited = timeoutMs

AllSent == \A i \in 1..Len(sent) : ~SendFailed(sent[i].errno)

\* Nothing came back during the call: in ping4 the request went out and the
\* last wait ran out with no packet read; on the TCP path the connect stayed
\* in progress and the wait for it ran out.
NothingArrived ==
    \/ IcmpMode /\ sent # <<>> /\ AllSent /\ pkt = NoPacket /\ tmout2 < 0
    \/ TcpMode /\ conn = "EINPROGRESS" /\ timeout < 0

\* C12: a call with timeoutMs = 0 to which nothing comes back returns false
\* with nothing thrown, and never calls NET_Wait with a positive budget, on
\* the ICMP path and on the TCP path.
C12_ZeroTimeoutUnreachable ==
    Returned("isReachable0") /\ timeoutMs = 0 /\ NothingArrived =>
        /\ ~reachable
        /\ thrown = <<>>
        /\ "positive" \notin waitKinds

C12_Witness ==
    /\ Returned("isReachable0")
    /\ timeoutMs = 0
    /\ NothingArrived
    /\ IcmpMode
    /\ Len(sent) = 1
    /\ waitKinds = {"nonpositive"}
    /\ ~reachable

\* The packet is an echo reply that carries this call's identifier and comes
\* from the target.
EchoReplyForCall(b, p, target) ==
    /\ p.type = "ICMP_ECHOREPLY"
    /\ Ntohs(b, p.id) = Pid
    /\ p.src = target

\* recvfrom has just delivered a packet that is not such a reply.
OtherPacketStep ==
    /\ pc = "ping_wait"
    /\ tmout2' >= 0
    /\ pkt' # NoPacket
    /\ ~EchoReplyForCall(build, pkt', him)

\* C13: ping4 returns true only on a packet that is an echo reply, carries
\* the identifier of the call and comes from the target; a packet that
\* fails one of the three does not make the call return true, and the wait
\* goes on in the same slice for the budget that is left.
C13_OnlyMatchingReply ==
    /\ [](IcmpMode /\ reachable => EchoReplyForCall(build, pkt, him))
    /\ [][OtherPacketStep =>
              /\ ~reachable'
              /\ tmout2' > 0 => pc' = "ping_wait" /\ timeout' = timeout]_vars

C13_Witness ==
    /\ IcmpMode
    /\ pc = "ping_wait"
    /\ Len(sent) = 1
    /\ tmout2 > 0
    /\ pkt.icmplen >= 8
    /\ pkt.type = "ICMP_ECHOREPLY"
    /\ Ntohs(build, pkt.id) = Pid
    /\ pkt.src # him
    /\ ~reachable

\* C14: once the raw socket is open the call is decided by ping4 alone: no
\* stream socket is opened and no connect is made, and when the timeout runs
\* out with no matching reply, no failed send and no failed bind, the call
\* returns false with nothing thrown.
C14_IcmpDecidesAlone ==
    IcmpMode =>
        /\ Len(tried) = 1
        /\ conn = "NONE"
        /\ pc \in {"ping4", "ping_send", "ping_wait", "done"}
        /\ pc = "done" /\ bound # "failed" /\ AllSent /\ ~Matches(build, pkt, him) =>
               /\ ~reachable
               /\ thrown = <<>>
               /\ timeout <= 0

C14_Witness ==
    /\ Returned("isReachable0")
    /\ IcmpMode
    /\ timeoutMs > 0
    /\ Len(sent) >= 2
    /\ AllSent
    /\ ~reachable
    /\ thrown = <<>>
    /\ Len(tried) = 1
    /\ conn = "NONE"

\* C15: on the TCP path a connect that succeeds at once or is refused at
\* once makes the call return true with nothing thrown and without any
\* NET_Wait, whatever the timeout is (0 and below included).
C15_ImmediateConnectReachable ==
    Returned("isReachable0") /\ conn \in {"OK", "ECONNREFUSED"} =>
        /\ reachable
        /\ thrown = <<>>
        /\ waitKinds = {}
        /\ waited = 0
        /\ timeout = timeoutMs

C15_Witness ==
    /\ Returned("isReachable0")
    /\ TcpMode
    /\ conn = "ECONNREFUSED"
    /\ timeoutMs = 0
    /\ reachable
    /\ thrown = <<>>

\* C16: two isReachable0 calls that run at the same time do not affect each
\* other: a call returns true only on the reply to a request of its own.
C16_CallsIndependent ==
    \A c \in Callers :
        calls[c].pc = "done" /\ calls[c].reachable => calls[c].pkt.from = c

\* The number of slices of SliceMs that cover t.
Slices(t) == (t + SliceMs - 1) \div SliceMs

\* C17: a ping4 call with timeoutMs > 0 that gets no matching reply and
\* meets no failed send or bind sends exactly ceil(timeoutMs / 1000) echo
\* requests; they carry the sequence numbers 1, 2, ... in this order and all
\* the same identifier.
C17_OneRequestPerSlice ==
    Returned("isReachable0") /\ IcmpMode /\ timeoutMs > 0
            /\ bound # "failed" /\ AllSent /\ ~reachable =>
        /\ Len(sent) = Slices(timeoutMs)
        /\ \A i \in 1..Len(sent) :
               /\ Ntohs(build, sent[i].seq) = i
               /\ sent[i].id = Htons(build, Pid)

C17_Witness ==
    /\ Returned("isReachable0")
    /\ IcmpMode
    /\ timeoutMs > 2 * SliceMs
    /\ AllSent
    /\ ~reachable
    /\ Len(sent) = 3
    /\ Ntohs(build, sent[3].seq) = 3

\* C18 as claimed: an echo request is sent only while the remaining budget
\* is above zero, so a call with timeoutMs <= 0 sends none.
C18_NoRequestWithoutBudget ==
    IcmpMode =>
        /\ \A i \in 1..Len(sent) : timeoutMs - ((i - 1) * SliceMs) > 0
        /\ timeoutMs <= 0 => sent = <<>>

\* C18: ping4 sends its first echo request before it looks at the budget,
\* whatever timeoutMs is, and each later request only while the remaining
\* budget is above zero; with timeoutMs <= 0 and no failed bind it sends
\* exactly one request.
C18_FirstRequestUnconditional ==
    IcmpMode =>
        /\ \A i \in 2..Len(sent) : timeoutMs - ((i - 1) * SliceMs) > 0
        /\ pc \in {"ping_wait", "done"} /\ bound # "failed" => Len(sent) >= 1
        /\ timeoutMs <= 0 => Len(sent) <= 1

C18_Witness ==
    /\ Returned("isReachable0")
    /\ IcmpMode
    /\ timeoutMs <= 0
    /\ Len(sent) = 1
    /\ AllSent
    /\ ~reachable

LastErrno == sent[Len(sent)].errno

\* C19 as claimed: a send that fails with "would block" or "in progress" is
\* no error and the call goes on to wait; EINVAL on Linux ends the call
\* with false and nothing thrown; any other errno ends it with "Can't send
\* ICMP packet"; after either of the last two no request follows.
C19_SendFailures ==
    IcmpMode /\ sent # <<>> =>
        LET benign == {"OK", "EINPROGRESS", "EAGAIN"}
        IN  /\ \A i \in 1..(Len(sent) - 1) : sent[i].errno \in benign
            /\ LastErrno \in benign =>
                   /\ thrown = <<>>
                   /\ pc = "ping_wait" \/ waitKinds # {}
            /\ LastErrno \notin benign =>
                   /\ pc = "done"
                   /\ ~reachable
                   /\ thrown = IF IsLinux(build) /\ LastErrno = "EINVAL"
                               THEN <<>>
                               ELSE <<"Can't send ICMP packet">>

\* C20: a bind to the source interface that fails ends the call with
\* "Can't bind socket", on the ICMP path and on the TCP path alike: no echo
\* request is sent, no connect is made, no wait is made, and after a failed
\* bind of the raw socket no stream socket is tried.
C20_BindFailureIsFatal ==
    op = "isReachable0" /\ bound = "failed" =>
        /\ pc = "done"
        /\ ~reachable
        /\ thrown = <<"Can't bind socket">>
        /\ sent = <<>>
        /\ conn = "NONE"
        /\ waitKinds = {}
        /\ IcmpMode => Len(tried) = 1

C20_Witness ==
    /\ Returned("isReachable0")
    /\ IcmpMode
    /\ ~netif.null
    /\ bound = "failed"
    /\ thrown = <<"Can't bind socket">>
    /\ sent = <<>>

\* The connect was made and failed at once with errno e.
ConnectFailedWith(e) == Returned("isReachable0") /\ TcpMode /\ conn = e

\* C21: on the TCP path a connect that fails at once with ENETUNREACH,
\* EAFNOSUPPORT or EADDRNOTAVAIL (or, on Linux, EINVAL) makes the call return
\* false with nothing thrown; one that fails at once with any other errno
\* but ECONNREFUSED and EINPROGRESS makes it throw "connect failed"; no
\* NET_Wait is made in either case.
C21_ImmediateConnectFailure ==
    \A e \in ConnectResults \ {"OK", "ECONNREFUSED", "EINPROGRESS"} :
        ConnectFailedWith(e) =>
            /\ ~reachable
            /\ waitKinds = {}
            /\ waited = 0
            /\ thrown = IF \/ e \in {"ENETUNREACH", "EAFNOSUPPORT", "EADDRNOTAVAIL"}
                           \/ e = "EINVAL" /\ build = "linux"
                        THEN <<>>
                        ELSE <<"connect failed">>

C21_Witness ==
    /\ ConnectFailedWith("EADDRNOTAVAIL")
    /\ ~reachable
    /\ thrown = <<>>
    /\ waitKinds = {}

ConnectPending == Returned("isReachable0") /\ TcpMode /\ conn = "EINPROGRESS"

\* C22: on the TCP path, when the connect is in progress the call makes one
\* NET_Wait with the remaining timeout and spends at most that time in it;
\* when the wait runs out the call returns false; when the socket becomes
\* connectable the call returns true exactly when SO_ERROR is 0 or
\* ECONNREFUSED and false otherwise; nothing is thrown in any of these cases.
C22_PendingConnect ==
    ConnectPending =>
        /\ thrown = <<>>
        /\ waitKinds = {WaitKind(timeoutMs)}
        /\ waited <= Max(timeoutMs, 0)
        /\ timeout < 0 => ~reachable /\ soerr = "NONE"
        /\ timeout >= 0 =>
               /\ soerr # "NONE"
               /\ reachable <=> soerr \in {"OK", "ECONNREFUSED"}

C22_Witness ==
    /\ ConnectPending
    /\ timeoutMs > 0
    /\ timeout >= 0
    /\ waited > 0
    /\ soerr = "ECONNREFUSED"
    /\ reachable
    /\ thrown = <<>>

NoSocketAtAll == RawFailed /\ Len(tried) = 2 /\ ~tried[2].ok

\* C23: when neither the raw socket nor the stream socket can be created,
\* the call ends with "Can't create socket": it makes no bind, no connect
\* and no wait, sends nothing and tries no third socket.
C23_NoStreamSocketIsFatal ==
    NoSocketAtAll =>
        /\ pc = "done"
        /\ ~reachable
        /\ thrown = <<"Can't create socket">>
        /\ tried[2].kind = "stream"
        /\ bound = "none"
        /\ conn = "NONE"
        /\ waitKinds = {}
        /\ sent = <<>>
        /\ sock = NoSocket

C23_Witness ==
    /\ Returned("isReachable0")
    /\ NoSocketAtAll
    /\ ~netif.null
    /\ thrown = <<"Can't create socket">>
    /\ ~reachable

\* C24 as claimed: a lookupAllHostAddr call queries the OS resolver at most
\* once, and a query that fails is reported as UnknownHostException.
C24_SingleQuery ==
    Returned("lookupAllHostAddr") =>
        /\ queries <= 1
        /\ retried = NoAnswer
        /\ queries = 1 /\ ~fwd.ok => ret = Null /\ thrown = <<UHE>>

\* C24: a lookupAllHostAddr call queries the OS resolver once, except that
\* the gethostbyname_r variant repeats a query that failed with ERANGE once,
\* with the big buffer; no query follows any other failure, at most two
\* queries are made, and a call whose last query failed raises
\* UnknownHostException.
C24_OneRetryForErange ==
    Returned("lookupAllHostAddr") =>
        /\ queries <= 2
        /\ queries < 2 => retried = NoAnswer
        /\ queries = 2 =>
               /\ ~UsesGetaddrinfo(build)
               /\ ~retried.ok
               /\ retried.errno = "ERANGE"
        /\ queries >= 1 /\ ~fwd.ok => ret = Null /\ thrown = <<UHE>>

C24_Witness ==
    /\ Returned("lookupAllHostAddr")
    /\ queries = 2
    /\ retried.errno = "ERANGE"
    /\ fwd.ok
    /\ ~ret.null
    /\ thrown = <<>>

\* C25: a getHostByAddr call of the gethostbyname_r variant that fails
\* raises exactly one exception; when the big buffer cannot be allocated
\* after ERANGE that is the OutOfMemoryError alone, with no
\* UnknownHostException raised while it is pending.
C25_OneErrorPerFailure ==
    Returned("getHostByAddr") /\ ~UsesGetaddrinfo(build) /\ ret.null =>
        /\ Len(thrown) = 1
        /\ Has(thrown, OOM) => thrown = <<OOM>>

=============================================================================
